---------------------------- MODULE Spec2Model ----------------------------
(***************************************************************************)
(* Election date tracker (website/src): the date utilities of utils.js,    *)
(* the status classifier, the timeline aggregator of UpcomingTimeline.jsx  *)
(* and the per-state next election of USMap.jsx.                           *)
(*                                                                         *)
(* Time is counted in hours since 2025-01-01T00:00Z.  The code counts      *)
(* milliseconds; every instant it subtracts is a local midnight, hence a   *)
(* whole number of hours, and ceil(ms / 86400000) = ceil(hours / 24).      *)
(* A date string "YYYY-MM-DD" is the tuple <<y, m, d>>; null is <<>>.      *)
(***************************************************************************)
EXTENDS Integers, Sequences, FiniteSets, TLC

VARIABLES
    tz,           \* the platform's local time zone (fixed for a page view)
    now,          \* the wall clock, what new Date() reads
    states,       \* data.states, the loaded state election records
    specialData,  \* the loaded special-elections document
    ret,          \* what the last call or render produced
    prev,         \* what the call before it produced
    loading,      \* App's loading state
    data,         \* App's data state: the election-dates document, or null
    fetch,        \* the two fetch promises and whether Promise.all was handled
    ui            \* the route shown, StateGrid's viewMode, USMap's tooltip

\* App's state besides specialData, the promises, and the state of the views
appVars == <<loading, data, fetch, ui>>

vars == <<tz, now, states, specialData, ret, prev, loading, data, fetch, ui>>

-----------------------------------------------------------------------------
(* Bounds of the model *)

\* hours the clock runs on from its first reading, in SpecDays
MaxHours == 80
\* days the clock runs on from its first reading, in Spec
MaxDays == 2
\* state records in the loaded document
MaxStates == 2
\* special-election records in the loaded document
MaxSpecials == 1
\* the day counts classified are -MaxPast .. MaxAhead
MaxPast == 3
MaxAhead == 183

-----------------------------------------------------------------------------
(* The platform's calendar and clock: what Date does with a date string.   *)

HoursPerDay == 24

Null == <<>>

IsLeap(y) == (y % 4 = 0 /\ y % 100 # 0) \/ y % 400 = 0

DaysInMonth(y, m) ==
    IF m = 2 THEN (IF IsLeap(y) THEN 29 ELSE 28)
    ELSE IF m \in {4, 6, 9, 11} THEN 30 ELSE 31

RECURSIVE DaysBeforeYear(_)
DaysBeforeYear(y) ==
    IF y <= 2025 THEN 0
    ELSE DaysBeforeYear(y - 1) + (IF IsLeap(y - 1) THEN 366 ELSE 365)

\* days from 1 January of year y to the first of month m
DaysBeforeMonth(y, m) ==
    <<0, 31, 59, 90, 120, 151, 181, 212, 243, 273, 304, 334>>[m]
        + (IF m > 2 /\ IsLeap(y) THEN 1 ELSE 0)

\* days from 2025-01-01 to the calendar date d
DayIndex(d) == DaysBeforeYear(d[1]) + DaysBeforeMonth(d[1], d[2]) + d[3] - 1

\* the calendar date that lies i days after 2025-01-01
CivilFromIndex(i) ==
    LET y == CHOOSE yy \in 2025 .. 2028 :
                 DaysBeforeYear(yy) <= i /\ i < DaysBeforeYear(yy + 1)
        r == i - DaysBeforeYear(y)
        m == CHOOSE mm \in 1 .. 12 :
                 /\ DaysBeforeMonth(y, mm) <= r
                 /\ r < DaysBeforeMonth(y, mm) + DaysInMonth(y, mm)
    IN  <<y, m, r - DaysBeforeMonth(y, m) + 1>>

\* The zones a browser may run in: one without daylight saving, one with
\* the United States rule (second Sunday of March, first Sunday of November).
TimeZones == {"UTC", "America/New_York"}

StdOffset(z) == IF z = "America/New_York" THEN 5 ELSE 0

DstStart(y) ==
    CASE y = 2025 -> <<2025, 3, 9>>
      [] y = 2026 -> <<2026, 3, 8>>
      [] OTHER    -> <<2027, 3, 14>>

DstEnd(y) ==
    CASE y = 2025 -> <<2025, 11, 2>>
      [] y = 2026 -> <<2026, 11, 1>>
      [] OTHER    -> <<2027, 11, 7>>

\* Is daylight saving in force at local midnight of day i?  The clocks change
\* at 02:00, so the midnight of the day they go forward is still standard
\* time and the midnight of the day they go back is still daylight time.
DstSpans == {<<DayIndex(DstStart(y)), DayIndex(DstEnd(y))>> : y \in 2025 .. 2027}

DstAtMidnight(z, i) ==
    /\ z = "America/New_York"
    /\ \E span \in DstSpans : span[1] < i /\ i <= span[2]

\* the instant of local midnight of day i
LocalMidnight(z, i) ==
    HoursPerDay * i + StdOffset(z) - (IF DstAtMidnight(z, i) THEN 1 ELSE 0)

\* new Date(dateStr + 'T00:00:00'): a date-time without offset is local time
ParseLocal(z, dateStr) == LocalMidnight(z, DayIndex(dateStr))

\* new Date(dateStr): a date-only string is UTC
ParseUtc(dateStr) == HoursPerDay * DayIndex(dateStr)

\* the local day the instant t lies in
LocalDayIndex(z, t) ==
    LET g == (t - StdOffset(z)) \div HoursPerDay
    IN  CHOOSE i \in (g - 1) .. (g + 1) :
            LocalMidnight(z, i) <= t /\ t < LocalMidnight(z, i + 1)

\* today.setHours(0, 0, 0, 0)
SetHoursZero(z, t) == LocalMidnight(z, LocalDayIndex(z, t))

\* the local calendar date of the instant t
LocalDate(z, t) == CivilFromIndex(LocalDayIndex(z, t))

\* Math.ceil(a / b) for b > 0
Ceil(a, b) == -((-a) \div b)

-----------------------------------------------------------------------------
(* utils.js *)

\* the number NaN: the time value of an Invalid Date and what arithmetic on
\* it gives; every comparison with it is false
NaN == -1000000

\* a date string no engine parses: its month or its day is out of range
InvalidDate(dateStr) ==
    dateStr[2] \notin 1 .. 12 \/ dateStr[3] \notin 1 .. 31

\* a daysUntil whose Invalid Date counts as the epoch
daysUntil_InvalidIsEpoch(z, t, dateStr) ==
    IF InvalidDate(dateStr)
    THEN Ceil(0 - SetHoursZero(z, t), HoursPerDay)
    ELSE Ceil(ParseLocal(z, dateStr) - SetHoursZero(z, t), HoursPerDay)

\* a count from the present instant, rounded down
daysUntil_FloorOfNow(z, t, dateStr) ==
    (ParseLocal(z, dateStr) - t) \div HoursPerDay

\* daysUntil(dateStr), called in zone z when the clock reads t
daysUntil(z, t, dateStr) ==
    IF InvalidDate(dateStr) THEN NaN
    ELSE LET target == ParseLocal(z, dateStr)
             today  == SetHoursZero(z, t)
             diff   == target - today
         IN  Ceil(diff, HoursPerDay)

\* getColorByDays with the first threshold exclusive
getColorByDays_Exclusive(days) ==
    IF days < 30 THEN "#C65D3D"
    ELSE IF days <= 60 THEN "#D4A574"
    ELSE IF days <= 90 THEN "#8B7355"
    ELSE IF days <= 180 THEN "#3D7A52"
    ELSE "#2D5A3D"

\* getColorByDays with a past election sent to the last bucket
getColorByDays_PastIsFar(days) ==
    IF days < 0 THEN "#2D5A3D"
    ELSE IF days <= 30 THEN "#C65D3D"
    ELSE IF days <= 60 THEN "#D4A574"
    ELSE IF days <= 90 THEN "#8B7355"
    ELSE IF days <= 180 THEN "#3D7A52"
    ELSE "#2D5A3D"

\* getColorByDays(days): first match wins
getColorByDays(days) ==
    IF days = NaN THEN "#2D5A3D"          \* no comparison holds of NaN
    ELSE IF days <= 30 THEN "#C65D3D"     \* rust - imminent
    ELSE IF days <= 60 THEN "#D4A574"     \* amber - soon
    ELSE IF days <= 90 THEN "#8B7355"     \* warm brown - approaching
    ELSE IF days <= 180 THEN "#3D7A52"    \* forest light - months away
    ELSE "#2D5A3D"                        \* forest - far out

-----------------------------------------------------------------------------
(* Arrays *)

\* what reading an absent property gives
Undefined == "undefined"

\* an insertion that also passes equal keys: a sort that is not stable
RECURSIVE InsertPair_Unstable(_, _)
InsertPair_Unstable(s, p) ==
    IF s = <<>> THEN <<p>>
    ELSE IF s[Len(s)][1] < p[1] THEN Append(s, p)
    ELSE Append(InsertPair_Unstable(SubSeq(s, 1, Len(s) - 1), p), s[Len(s)])

\* Array.prototype.sort on <<key, element>> pairs, ascending by key: an
\* insertion from the right that passes only strictly larger keys, so that
\* elements with equal keys keep their order (the sort is stable)
RECURSIVE InsertPair(_, _)
InsertPair(s, p) ==
    IF s = <<>> THEN <<p>>
    ELSE IF s[Len(s)][1] <= p[1] THEN Append(s, p)
    ELSE Append(InsertPair(SubSeq(s, 1, Len(s) - 1), p), s[Len(s)])

RECURSIVE SortPairs(_)
SortPairs(s) ==
    IF s = <<>> THEN <<>>
    ELSE InsertPair(SortPairs(SubSeq(s, 1, Len(s) - 1)), s[Len(s)])

\* arr.sort((a, b) => keys(a) - keys(b)), keys[i] being the key of arr[i]
ArraySort(keys, arr) ==
    LET sorted == SortPairs([i \in 1 .. Len(arr) |-> <<keys[i], arr[i]>>])
    IN  [i \in 1 .. Len(arr) |-> sorted[i][2]]

RECURSIVE Flatten(_)
Flatten(ss) ==
    IF ss = <<>> THEN <<>> ELSE ss[1] \o Flatten(Tail(ss))

-----------------------------------------------------------------------------
(* UpcomingTimeline.jsx *)

\* specialData?.special_elections, or the empty list when it is missing
SpecialElections(sd) ==
    IF "special_elections" \in DOMAIN sd THEN sd.special_elections ELSE <<>>

\* the two events of a state record, the General with the primary's date
RegularEvents_SameDate(z, t, state) ==
    << [state_code |-> state.state_code, state_name |-> state.state_name,
        date |-> state.next_primary.date, type |-> "Primary",
        category |-> "regular", office |-> Undefined, district |-> Undefined,
        days |-> daysUntil(z, t, state.next_primary.date)],
       [state_code |-> state.state_code, state_name |-> state.state_name,
        date |-> state.next_primary.date, type |-> "General",
        category |-> "regular", office |-> Undefined, district |-> Undefined,
        days |-> daysUntil(z, t, state.next_primary.date)] >>

\* the two events pushed for one state record
RegularEvents(z, t, state) ==
    << [state_code |-> state.state_code, state_name |-> state.state_name,
        date |-> state.next_primary.date, type |-> "Primary",
        category |-> "regular", office |-> Undefined, district |-> Undefined,
        days |-> daysUntil(z, t, state.next_primary.date)],
       [state_code |-> state.state_code, state_name |-> state.state_name,
        date |-> state.next_general.date, type |-> "General",
        category |-> "regular", office |-> Undefined, district |-> Undefined,
        days |-> daysUntil(z, t, state.next_general.date)] >>

\* the event pushed for one special-election record, if it has a next_date
SpecialEvents(z, t, election) ==
    IF election.next_date # Null
    THEN << [state_code |-> election.state_code,
             state_name |-> election.state_name,
             date |-> election.next_date, type |-> "Special",
             category |-> "special", office |-> election.office,
             district |-> election.district,
             days |-> daysUntil(z, t, election.next_date)] >>
    ELSE <<>>

\* Build list of all elections: regular ones first, then the special ones
BuildList(z, t, sts, sd) ==
    Flatten([i \in 1 .. Len(sts) |-> RegularEvents(z, t, sts[i])])
    \o Flatten([i \in 1 .. Len(SpecialElections(sd)) |->
                   SpecialEvents(z, t, SpecialElections(sd)[i])])

\* elections.sort((a, b) => new Date(a.date) - new Date(b.date))
SortByDate(elections) ==
    ArraySort([i \in 1 .. Len(elections) |-> ParseUtc(elections[i].date)],
              elections)

\* the arrangements of a list
PermutationsOf(list) ==
    { [i \in 1 .. Len(list) |-> list[f[i]]] :
        f \in { g \in [1 .. Len(list) -> 1 .. Len(list)] :
                  \A i, j \in 1 .. Len(list) : g[i] = g[j] => i = j } }

\* what the sort may leave: with an Invalid Date among the elections the
\* comparator returns NaN, it is not a consistent comparator, and the order
\* of the array is implementation-defined
SortByDateOutcomes(elections) ==
    IF \E i \in 1 .. Len(elections) : InvalidDate(elections[i].date)
    THEN PermutationsOf(elections)
    ELSE {SortByDate(elections)}

\* a filter that drops today's elections too
FilterUpcoming_Strict(elections) ==
    SelectSeq(elections, LAMBDA e : e.days > 0)

\* elections.filter(e => e.days >= 0)
FilterUpcoming(elections) ==
    SelectSeq(elections, LAMBDA e : e.days # NaN /\ e.days >= 0)

MonthName(m) ==
    << "January", "February", "March", "April", "May", "June", "July",
       "August", "September", "October", "November", "December" >>[m]

\* a group key without the year
MonthYear_NoYear(z, dateStr) ==
    << MonthName(LocalDate(z, ParseLocal(z, dateStr))[2]) >>

\* new Date(date + 'T00:00:00').toLocaleDateString('en-US',
\*     { month: 'long', year: 'numeric' }), e.g. <<"November", 2026>>
MonthYear(z, dateStr) ==
    LET d == LocalDate(z, ParseLocal(z, dateStr))
    IN  <<MonthName(d[2]), d[1]>>

\* a reduce step that assigns the group instead of pushing to it
AddToGroup_Replace(acc, monthYear, election) ==
    IF \E j \in 1 .. Len(acc) : acc[j].month = monthYear
    THEN [j \in 1 .. Len(acc) |->
            IF acc[j].month = monthYear
            THEN [acc[j] EXCEPT !.elections = <<election>>]
            ELSE acc[j]]
    ELSE Append(acc, [month |-> monthYear, elections |-> <<election>>])

\* one step of the reduce: acc is the object as the list of its entries in
\* insertion order, which is the order Object.entries gives
AddToGroup(acc, monthYear, election) ==
    IF \E j \in 1 .. Len(acc) : acc[j].month = monthYear
    THEN [j \in 1 .. Len(acc) |->
            IF acc[j].month = monthYear
            THEN [acc[j] EXCEPT !.elections = Append(@, election)]
            ELSE acc[j]]
    ELSE Append(acc, [month |-> monthYear, elections |-> <<election>>])

RECURSIVE GroupFrom(_, _, _)
GroupFrom(z, acc, elections) ==
    IF elections = <<>> THEN acc
    ELSE GroupFrom(z,
                   AddToGroup(acc, MonthYear(z, elections[1].date), elections[1]),
                   Tail(elections))

\* upcomingElections.reduce(..., {})
GroupByMonth(z, upcomingElections) == GroupFrom(z, <<>>, upcomingElections)

-----------------------------------------------------------------------------
(* USMap.jsx *)

\* what getNextElection returns for a state that is not in the lookup
NullElection == [type |-> "null"]

\* stateData[stateCode]: the lookup holds the last record of each state code
HasState(sts, stateCode) ==
    \E i \in 1 .. Len(sts) : sts[i].state_code = stateCode

StateData(sts, stateCode) ==
    LET i == CHOOSE i \in 1 .. Len(sts) :
                /\ sts[i].state_code = stateCode
                /\ \A j \in (i + 1) .. Len(sts) : sts[j].state_code # stateCode
    IN  sts[i]

\* getStateSpecials(stateCode)
getStateSpecials(sd, stateCode) ==
    SelectSeq(SpecialElections(sd), LAMBDA e : e.state_code = stateCode)

\* the special candidate of one record, if it has a next_date
SpecialCandidate(z, t, special) ==
    IF special.next_date # Null
    THEN << [type |-> "Special", date |-> special.next_date,
             days |-> daysUntil(z, t, special.next_date),
             office |-> special.office, district |-> special.district] >>
    ELSE <<>>

\* the elections array of getNextElection before the filter
Candidates(z, t, sts, sd, stateCode) ==
    LET state    == StateData(sts, stateCode)
        specials == getStateSpecials(sd, stateCode)
    IN  << [type |-> "Primary", date |-> state.next_primary.date,
            days |-> daysUntil(z, t, state.next_primary.date),
            office |-> Undefined, district |-> Undefined],
           [type |-> "General", date |-> state.next_general.date,
            days |-> daysUntil(z, t, state.next_general.date),
            office |-> Undefined, district |-> Undefined] >>
        \o Flatten([i \in 1 .. Len(specials) |->
                       SpecialCandidate(z, t, specials[i])])

\* .sort((a, b) => b.days - a.days)
SortByDays_Descending(elections) ==
    ArraySort([i \in 1 .. Len(elections) |-> 0 - elections[i].days], elections)

\* .sort((a, b) => a.days - b.days)
SortByDays(elections) ==
    ArraySort([i \in 1 .. Len(elections) |-> elections[i].days], elections)

\* no fallback: nothing upcoming gives null
FirstOr_NoFallback(upcoming, elections) ==
    IF upcoming # <<>> THEN upcoming[1] ELSE NullElection

\* a fallback to the last candidate
FirstOr_Last(upcoming, elections) ==
    IF upcoming # <<>> THEN upcoming[1] ELSE elections[Len(elections)]

\* upcoming[0] || elections[0]
FirstOr(upcoming, elections) ==
    IF upcoming # <<>> THEN upcoming[1] ELSE elections[1]

\* getNextElection(stateCode)
getNextElection(z, t, sts, sd, stateCode) ==
    IF ~HasState(sts, stateCode) THEN NullElection
    ELSE LET elections == Candidates(z, t, sts, sd, stateCode)
             upcoming  ==
                 SortByDays(SelectSeq(elections,
                                      LAMBDA e : e.days # NaN /\ e.days >= 0))
         IN  FirstOr(upcoming, elections)

-----------------------------------------------------------------------------
(* Calls and their results.  ret holds what the last call returned; a call *)
(* moves the result before it to prev.                                     *)

NoCall == [op |-> "none"]

\* the page is opened at local midnight of one of these days
ClockStarts == {<<2026, 3, 6>>, <<2026, 10, 30>>}

\* the dates daysUntil is asked about
TargetDates ==
    {<<2026, 3, 3>>, <<2026, 3, 7>>, <<2026, 3, 9>>, <<2026, 3, 10>>,
     <<2026, 10, 31>>, <<2026, 11, 1>>, <<2026, 11, 3>>}

NoData == [special_elections |-> <<>>]

\* a promise: pending, fulfilled with a value, or rejected
Pending == [status |-> "pending"]
Fulfilled(v) == [status |-> "fulfilled", value |-> v]
Rejected == [status |-> "rejected"]

\* a place of the site: the index, the timeline, or the detail page of the
\* state code given in the URL
IndexPath == [route |-> "index", stateCode |-> ""]
UpcomingPath == [route |-> "upcoming", stateCode |-> ""]
DetailPath(code) == [route |-> "detail", stateCode |-> code]

\* useState(null) of USMap's tooltipContent
NoTooltip == [name |-> "null"]

\* the views as they are mounted: the index in map mode, no tooltip
InitialUi ==
    [path |-> IndexPath, viewMode |-> "map",
     tooltipContent |-> NoTooltip, tooltipPos |-> [x |-> 0, y |-> 0]]

\* the app with the document sts loaded and both promises handled
Loaded(sts, sd) ==
    /\ loading = FALSE
    /\ data = [states |-> sts]
    /\ fetch = [regular |-> Fulfilled([states |-> sts]),
                special |-> Fulfilled(sd), handled |-> TRUE]
    /\ ui = InitialUi

\* the clock moves on by an hour; the result of the last call was computed
\* for the earlier instant and is no longer outstanding
Tick ==
    /\ \E d \in ClockStarts :
          ParseLocal(tz, d) <= now /\ now < ParseLocal(tz, d) + MaxHours
    /\ now' = now + 1
    /\ ret' = NoCall
    /\ prev' = NoCall
    /\ UNCHANGED <<tz, states, specialData, appVars>>

CallDaysUntil(dateStr) ==
    /\ ret' = [op |-> "daysUntil", dateStr |-> dateStr,
               days |-> daysUntil(tz, now, dateStr)]
    /\ prev' = ret
    /\ UNCHANGED <<tz, now, states, specialData, appVars>>

CallGetColorByDays(days) ==
    /\ ret' = [op |-> "getColorByDays", days |-> days,
               color |-> getColorByDays(days)]
    /\ prev' = ret
    /\ UNCHANGED <<tz, now, states, specialData, appVars>>

-----------------------------------------------------------------------------
(* The date utility on its own: every zone, every hour around the two      *)
(* daylight-saving changes of 2026.                                        *)

InitDays ==
    /\ tz \in TimeZones
    /\ now \in {ParseLocal(tz, d) : d \in ClockStarts}
    /\ states = <<>>
    /\ specialData = NoData
    /\ ret = NoCall
    /\ prev = NoCall
    /\ Loaded(states, specialData)

NextDays ==
    \/ Tick
    \/ \E d \in TargetDates : CallDaysUntil(d)

SpecDays == InitDays /\ [][NextDays]_vars

(* The classifier on its own. *)

InitClassify ==
    /\ tz = "UTC"
    /\ now = ParseLocal("UTC", <<2026, 1, 1>>)
    /\ states = <<>>
    /\ specialData = NoData
    /\ ret = NoCall
    /\ prev = NoCall
    /\ Loaded(states, specialData)

NextClassify == \E d \in (0 - MaxPast) .. MaxAhead : CallGetColorByDays(d)

SpecClassify == InitClassify /\ [][NextClassify]_vars

-----------------------------------------------------------------------------
(* The loaded documents and the views computed from them.                  *)

StateCodes == <<"AA", "BB", "CC", "DD">>
StateNames == <<"Alphaland", "Betaland", "Gammaland", "Deltaland">>

\* the dates of a state record: primary and general on one day, the
\* primary a year before the general, the general before the primary
RegularDates ==
    { <<<<2026, 11, 1>>, <<2026, 11, 1>>>>,
      <<<<2026, 11, 1>>, <<2027, 11, 2>>>>,
      <<<<2026, 11, 3>>, <<2026, 11, 1>>>> }

SpecialDates == {Null, <<2026, 11, 1>>, <<2026, 12, 1>>}

\* the records the i-th entry of data.states may be
StateRecords(i) ==
    { [state_code |-> StateCodes[i], state_name |-> StateNames[i],
       next_primary |-> [date |-> pg[1]], next_general |-> [date |-> pg[2]]] :
        pg \in RegularDates }

\* state_code is unique across data.states
StateLists ==
    UNION { { sts \in [1 .. n -> UNION {StateRecords(i) : i \in 1 .. n}] :
                \A i \in 1 .. n : sts[i] \in StateRecords(i) } :
            n \in 0 .. MaxStates }

\* a special election of the first state, or of a state that has no record
SpecialRecords ==
    { [state_code |-> "AA", state_name |-> "Alphaland",
       office |-> "U.S. House", district |-> "District 5", next_date |-> d] :
        d \in SpecialDates }
    \cup
    { [state_code |-> "ZZ", state_name |-> "Zetaland",
       office |-> "U.S. Senate", district |-> Null,
       next_date |-> <<2026, 12, 1>>] }

SpecialLists == UNION { [1 .. n -> SpecialRecords] : n \in 0 .. MaxSpecials }

\* the day the page is opened
PageOpened == <<2026, 11, 1>>

\* the state codes the map asks about: every geography's, known or not
AskedCodes == {StateCodes[i] : i \in 1 .. MaxStates} \cup {"ZZ"}

\* a day passes between two renders
NextDay ==
    /\ now < ParseLocal(tz, PageOpened) + MaxDays * HoursPerDay
    /\ now' = now + HoursPerDay
    /\ ret' = NoCall
    /\ prev' = NoCall
    /\ UNCHANGED <<tz, states, specialData, appVars>>

\* one render of <UpcomingTimeline states specialData />; the render reads
\* the clock at one instant
RenderTimeline ==
    /\ \E elections \in
            SortByDateOutcomes(BuildList(tz, now, states, specialData)) :
          LET emitted == BuildList(tz, now, states, specialData)
              upcomingElections == FilterUpcoming(elections)
          IN  ret' = [op |-> "UpcomingTimeline",
                      emitted |-> emitted,
                      elections |-> elections,
                      upcomingElections |-> upcomingElections,
                      grouped |-> GroupByMonth(tz, upcomingElections)]
    /\ prev' = NoCall
    /\ UNCHANGED <<tz, now, states, specialData, appVars>>

\* one call of getNextElection(stateCode) in a render of <USMap />
CallGetNextElection(stateCode) ==
    /\ ret' = [op |-> "getNextElection",
               stateCode |-> stateCode,
               elections |-> IF HasState(states, stateCode)
                             THEN Candidates(tz, now, states, specialData,
                                             stateCode)
                             ELSE <<>>,
               next |-> getNextElection(tz, now, states, specialData,
                                        stateCode)]
    /\ prev' = NoCall
    /\ UNCHANGED <<tz, now, states, specialData, appVars>>

Init ==
    /\ tz \in TimeZones
    /\ now = ParseLocal(tz, PageOpened)
    /\ states \in StateLists
    /\ specialData \in {[special_elections |-> sp] : sp \in SpecialLists}
    /\ ret = NoCall
    /\ prev = NoCall
    /\ Loaded(states, specialData)

Next ==
    \/ NextDay
    \/ RenderTimeline
    \/ \E c \in AskedCodes : CallGetNextElection(c)

Spec == Init /\ [][Next]_vars

-----------------------------------------------------------------------------
(* C1 *)

\* the signed number of calendar days from today's local date to dateStr
CalendarDays(z, t, dateStr) == DayIndex(dateStr) - DayIndex(LocalDate(z, t))

\* C1: daysUntil(D) is the signed number of calendar days from today's local
\* date to D, at every instant of the day and across daylight-saving changes.
C1_DaysUntilIsCalendarDays ==
    ret.op = "daysUntil" => ret.days = CalendarDays(tz, now, ret.dateStr)

-----------------------------------------------------------------------------
(* C2, C3 *)

\* the bucket the thresholds assign to a day count
BucketOfDays(d) ==
    CASE d <= 30        -> "imminent"
      [] d \in 31 .. 60  -> "soon"
      [] d \in 61 .. 90  -> "approaching"
      [] d \in 91 .. 180 -> "distant"
      [] d > 180        -> "far"

\* the one colour of each bucket
ColorOfBucket(b) ==
    CASE b = "imminent"    -> "#C65D3D"
      [] b = "soon"        -> "#D4A574"
      [] b = "approaching" -> "#8B7355"
      [] b = "distant"     -> "#3D7A52"
      [] b = "far"         -> "#2D5A3D"

\* imminent > soon > approaching > distant > far
Urgency(color) ==
    CASE color = "#C65D3D" -> 5
      [] color = "#D4A574" -> 4
      [] color = "#8B7355" -> 3
      [] color = "#3D7A52" -> 2
      [] color = "#2D5A3D" -> 1

C3_ClassifierMonotone ==
    (prev.op = "getColorByDays" /\ ret.op = "getColorByDays"
        /\ prev.days < ret.days) =>
        /\ Urgency(prev.color) >= Urgency(ret.color)
        /\ prev.color # ret.color =>
              \E t \in {30, 60, 90, 180} : prev.days <= t /\ t < ret.days

C3_Witness ==
    /\ prev.op = "getColorByDays" /\ ret.op = "getColorByDays"
    /\ prev.days = 30 /\ ret.days = 31
    /\ Urgency(prev.color) > Urgency(ret.color)

-----------------------------------------------------------------------------
(* C4 .. C8: the timeline *)

Range(s) == {s[i] : i \in DOMAIN s}

CountIn(s, e) == Cardinality({i \in DOMAIN s : s[i] = e})

\* the order of the date strings
DateLeq(a, b) ==
    \/ a[1] < b[1]
    \/ a[1] = b[1] /\ a[2] < b[2]
    \/ a[1] = b[1] /\ a[2] = b[2] /\ a[3] <= b[3]

\* the records of the special-elections list that have a next_date
Dated(sp) == SelectSeq(sp, LAMBDA e : e.next_date # Null)

\* C4: the upcoming list ascends by date (not strictly), holds no event with
\* days < 0, keeps every emitted event with days >= 0 (today's included) and
\* drops every event with days < 0.
C4_UpcomingSortedAndFiltered ==
    ret.op = "UpcomingTimeline" =>
        LET up == ret.upcomingElections
        IN  /\ \A i \in 1 .. (Len(up) - 1) : DateLeq(up[i].date, up[i + 1].date)
            /\ \A i \in 1 .. Len(up) : up[i].days >= 0
            /\ \A e \in Range(up) : e \in Range(ret.emitted)
            /\ \A e \in Range(ret.emitted) :
                  CountIn(up, e) =
                      IF e.days >= 0 THEN CountIn(ret.emitted, e) ELSE 0

C4_Witness ==
    /\ ret.op = "UpcomingTimeline"
    /\ \E e \in Range(ret.emitted) : e.days < 0
    /\ \E e \in Range(ret.upcomingElections) : e.days = 0
    /\ \E e \in Range(ret.upcomingElections) : e.days > 0
    /\ \E i, j \in 1 .. Len(ret.emitted) :
          i < j /\ ~DateLeq(ret.emitted[i].date, ret.emitted[j].date)

\* C5: the list as built holds, for the i-th state record, its Primary and
\* then its General (each with the state's code and name, category regular,
\* and its own date), and after all of them one Special event per
\* special-election record with a next_date, in input order, with that
\* record's office and district; a record without next_date emits nothing.
C5_BuildList ==
    ret.op = "UpcomingTimeline" =>
        LET em == ret.emitted
            n  == Len(states)
            sp == Dated(SpecialElections(specialData))
        IN  /\ Len(em) = 2 * n + Len(sp)
            /\ \A i \in 1 .. n :
                  /\ em[2 * i - 1].type = "Primary"
                  /\ em[2 * i - 1].date = states[i].next_primary.date
                  /\ em[2 * i].type = "General"
                  /\ em[2 * i].date = states[i].next_general.date
                  /\ \A k \in {2 * i - 1, 2 * i} :
                        /\ em[k].state_code = states[i].state_code
                        /\ em[k].state_name = states[i].state_name
                        /\ em[k].category = "regular"
            /\ \A k \in 1 .. Len(sp) :
                  /\ em[2 * n + k].type = "Special"
                  /\ em[2 * n + k].category = "special"
                  /\ em[2 * n + k].date = sp[k].next_date
                  /\ em[2 * n + k].state_code = sp[k].state_code
                  /\ em[2 * n + k].office = sp[k].office
                  /\ em[2 * n + k].district = sp[k].district

C5_Witness ==
    /\ ret.op = "UpcomingTimeline"
    /\ Len(states) = 2
    /\ Len(SpecialElections(specialData)) = 1
    /\ SpecialElections(specialData)[1].next_date = Null
    /\ Len(ret.emitted) = 4
    /\ states[1].next_primary.date # states[1].next_general.date

\* C6: the month groups partition the upcoming list: no group is empty, the
\* groups have distinct keys, each event of a group has the month and year
\* of the group's key, and the groups together hold every upcoming event as
\* often as the list does.
C6_GroupsPartition ==
    ret.op = "UpcomingTimeline" =>
        LET up  == ret.upcomingElections
            g   == ret.grouped
            all == Flatten([j \in 1 .. Len(g) |-> g[j].elections])
        IN  /\ \A j \in 1 .. Len(g) : g[j].elections # <<>>
            /\ \A j, k \in 1 .. Len(g) : g[j].month = g[k].month => j = k
            /\ \A j \in 1 .. Len(g) : \A e \in Range(g[j].elections) :
                  g[j].month = <<MonthName(e.date[2]), e.date[1]>>
            /\ Len(all) = Len(up)
            /\ \A e \in Range(up) \cup Range(all) :
                  CountIn(all, e) = CountIn(up, e)

C6_Witness ==
    /\ ret.op = "UpcomingTimeline"
    /\ Len(ret.grouped) >= 2
    /\ \E j \in 1 .. Len(ret.grouped) : Len(ret.grouped[j].elections) >= 2
    /\ Len(ret.upcomingElections) < Len(ret.emitted)

\* C7: the groups are in the order of their first events in the sorted list,
\* which is the order of the months in time, and the groups put one after
\* the other are the sorted upcoming list.
C7_GroupsInOrder ==
    ret.op = "UpcomingTimeline" =>
        LET g == ret.grouped
        IN  /\ Flatten([j \in 1 .. Len(g) |-> g[j].elections])
                  = ret.upcomingElections
            /\ \A j \in 1 .. (Len(g) - 1) :
                  LET a == g[j].elections[1].date
                      b == g[j + 1].elections[1].date
                  IN  a[1] < b[1] \/ (a[1] = b[1] /\ a[2] < b[2])

C7_Witness ==
    /\ ret.op = "UpcomingTimeline"
    /\ Len(ret.grouped) = 3
    /\ ret.grouped[1].month = <<"November", 2026>>
    /\ ret.grouped[2].month = <<"December", 2026>>
    /\ ret.grouped[3].month = <<"November", 2027>>
    /\ ret.emitted[Len(ret.emitted)].date = <<2026, 12, 1>>

\* the position of a state code in data.states
StateIndex(code) == CHOOSE i \in 1 .. Len(states) : states[i].state_code = code

\* C8: within a month group, the events of one date are the emitted events
\* of that date with days >= 0 in the order of their emission: states in
\* input order, a state's Primary before its General, Special events after
\* all regular ones.
C8_SortStable ==
    ret.op = "UpcomingTimeline" =>
        \A j \in 1 .. Len(ret.grouped) :
            LET es == ret.grouped[j].elections
            IN  /\ \A e \in Range(es) :
                      SelectSeq(es, LAMBDA x : x.date = e.date)
                          = SelectSeq(ret.emitted,
                                      LAMBDA x : x.date = e.date /\ x.days >= 0)
                /\ \A a, b \in 1 .. Len(es) :
                      (a < b /\ es[a].date = es[b].date) =>
                          /\ es[a].category = "special"
                                => es[b].category = "special"
                          /\ (es[a].category = "regular"
                                /\ es[b].category = "regular") =>
                                /\ StateIndex(es[a].state_code)
                                      <= StateIndex(es[b].state_code)
                                /\ es[a].state_code = es[b].state_code =>
                                      (es[a].type = "Primary"
                                          /\ es[b].type = "General")

C8_Witness ==
    /\ ret.op = "UpcomingTimeline"
    /\ \E j \in 1 .. Len(ret.grouped) :
          LET es == ret.grouped[j].elections
          IN  /\ Len(es) >= 4
              /\ \A a \in 1 .. 4 : es[a].date = es[1].date
              /\ es[1].type = "Primary" /\ es[2].type = "General"
              /\ es[2].state_code = es[1].state_code
              /\ es[3].state_code # es[1].state_code
              /\ es[3].category = "regular"
              /\ es[4].type = "Special"

-----------------------------------------------------------------------------
(* C9, C10: the next election of a state *)

\* C9: for a state in the lookup the candidates are its Primary, its General
\* and one Special per special-election record of its state_code with a
\* next_date; when a candidate has days >= 0, the election returned is a
\* candidate with days >= 0 and no candidate has a smaller non-negative days.
C9_NextIsEarliestUpcoming ==
    (ret.op = "getNextElection" /\ HasState(states, ret.stateCode)) =>
        LET cs == ret.elections
            st == states[StateIndex(ret.stateCode)]
            sp == Dated(SelectSeq(SpecialElections(specialData),
                                  LAMBDA e : e.state_code = ret.stateCode))
        IN  /\ Len(cs) = 2 + Len(sp)
            /\ cs[1].type = "Primary" /\ cs[1].date = st.next_primary.date
            /\ cs[2].type = "General" /\ cs[2].date = st.next_general.date
            /\ \A k \in 1 .. Len(sp) :
                  /\ cs[2 + k].type = "Special"
                  /\ cs[2 + k].date = sp[k].next_date
            /\ (\E c \in Range(cs) : c.days >= 0) =>
                  /\ ret.next \in Range(cs)
                  /\ ret.next.days >= 0
                  /\ \A c \in Range(cs) : c.days >= 0 => ret.next.days <= c.days

C9_Witness ==
    /\ ret.op = "getNextElection" /\ HasState(states, ret.stateCode)
    /\ Len(ret.elections) = 3
    /\ ret.elections[1].days < 0
    /\ ret.elections[2].days > ret.elections[3].days
    /\ ret.next.type = "Special"
    /\ ret.next.days > 0

\* C10: when every candidate of the state has days < 0 the election returned
\* is the first candidate, the Primary, with its negative days; an election
\* with negative days is returned in that case only.
C10_FallbackToPrimary ==
    (ret.op = "getNextElection" /\ HasState(states, ret.stateCode)) =>
        LET cs == ret.elections
        IN  /\ (\A c \in Range(cs) : c.days < 0) =>
                  /\ ret.next = cs[1]
                  /\ ret.next.type = "Primary"
                  /\ ret.next.days < 0
            /\ ret.next.days < 0 => \A c \in Range(cs) : c.days < 0

C10_Witness ==
    /\ ret.op = "getNextElection" /\ HasState(states, ret.stateCode)
    /\ Len(ret.elections) = 3
    /\ \A c \in Range(ret.elections) : c.days < 0
    /\ ret.next.type = "Primary"

-----------------------------------------------------------------------------
(* The documents the two fetches may deliver.                              *)

\* a value that is null or undefined: it has none of the fields the code
\* reads through ?.
NullDoc == [isNull |-> TRUE]

\* the i-th state record with the given primary and general dates
RecordOf(i, primary, general) ==
    CHOOSE r \in StateRecords(i) :
        r.next_primary.date = primary /\ r.next_general.date = general

\* election_dates.json: two states, one state, no state
ElectionDocs ==
    { [states |-> << RecordOf(1, <<2026, 11, 1>>, <<2027, 11, 2>>),
                     RecordOf(2, <<2026, 11, 3>>, <<2026, 11, 1>>) >>],
      [states |-> << RecordOf(1, <<2026, 11, 1>>, <<2026, 11, 1>>) >>],
      [states |-> << >>] }

SpecialOf(code, d) ==
    CHOOSE r \in SpecialRecords : r.state_code = code /\ r.next_date = d

\* by_state as the scraper writes it: the records of each state code, the
\* object being the list of its entries in insertion order
RECURSIVE ByStateFrom(_, _)
ByStateFrom(acc, list) ==
    IF list = <<>> THEN acc
    ELSE LET e == list[1]
             next == IF \E j \in 1 .. Len(acc) : acc[j].key = e.state_code
                     THEN [j \in 1 .. Len(acc) |->
                             IF acc[j].key = e.state_code
                             THEN [acc[j] EXCEPT !.value = Append(@, e)]
                             ELSE acc[j]]
                     ELSE Append(acc, [key |-> e.state_code, value |-> <<e>>])
         IN  ByStateFrom(next, Tail(list))

ByState(list) == ByStateFrom(<<>>, list)

FullDoc(list) == [special_elections |-> list, by_state |-> ByState(list)]

\* the lists of special_elections.json: one record without a date, then a
\* dated record of the same state and one of a state without a record
UndatedList == << SpecialOf("AA", Null) >>
DatedList   == << SpecialOf("AA", Null), SpecialOf("AA", <<2026, 12, 1>>),
                  SpecialOf("ZZ", <<2026, 12, 1>>) >>

\* what res.json() of special_elections.json may be: the full document,
\* a document without one or both of its fields, or the JSON value null
SpecialDocs ==
    { FullDoc(UndatedList), FullDoc(DatedList), FullDoc(<<>>),
      [special_elections |-> DatedList],
      [by_state |-> ByState(DatedList)],
      [last_updated |-> <<2026, 10, 31>>],
      NullDoc }

-----------------------------------------------------------------------------
(* App.jsx: the load                                                       *)

\* the structure the catch of the optional fetch returns
EmptyStructure == [special_elections |-> <<>>, by_state |-> <<>>]

\* a fetch whose failure is passed on instead of being replaced
Caught_Rethrow(p) == p

\* fetch(...).then(res => res.json()).catch(() => ({...})) of a fetch that
\* has settled as p
Caught(p) ==
    IF p.status = "rejected" THEN Fulfilled(EmptyStructure) ELSE p

\* a combinator that is fulfilled as soon as its first promise is
PromiseAll_FirstOnly(ps) ==
    IF ps[1].status = "fulfilled"
    THEN Fulfilled([i \in 1 .. Len(ps) |->
                      IF ps[i].status = "fulfilled" THEN ps[i].value
                      ELSE NullDoc])
    ELSE ps[1]

\* Promise.all([regular, special]): rejected as soon as one is, fulfilled
\* once both are
PromiseAll(ps) ==
    IF \E i \in 1 .. Len(ps) : ps[i].status = "rejected" THEN Rejected
    ELSE IF \A i \in 1 .. Len(ps) : ps[i].status = "fulfilled"
         THEN Fulfilled([i \in 1 .. Len(ps) |-> ps[i].value])
         ELSE Pending

\* the promise the effect chains its then and catch on
LoadPromise == PromiseAll(<< fetch.regular, Caught(fetch.special) >>)

\* what App returns: the loading view, the error view or the routes
AppView ==
    IF loading THEN "loading"
    ELSE IF data = NullDoc THEN "error"
    ELSE "data"

\* the message of the error view
ErrorMessage == "Failed to load election data"

-----------------------------------------------------------------------------
(* StateGrid.jsx, StateCard.jsx, StateStats.jsx                            *)

\* obj[key] of an object kept as the list of its entries
HasKey(obj, key) == \E j \in 1 .. Len(obj) : obj[j].key = key
Lookup(obj, key) == (CHOOSE j \in 1 .. Len(obj) : obj[j].key = key)

\* a count read from the list of records instead of by_state
getSpecialCount_FromList(sd, stateCode) == Len(getStateSpecials(sd, stateCode))

\* getSpecialCount(stateCode) of StateGrid
getSpecialCount(sd, stateCode) ==
    IF "by_state" \notin DOMAIN sd THEN 0
    ELSE IF HasKey(sd.by_state, stateCode)
         THEN Len(sd.by_state[Lookup(sd.by_state, stateCode)].value)
         ELSE 0

\* what <StateCard state specialCount /> shows
StateCard(z, t, state, specialCount) ==
    LET primaryDays == daysUntil(z, t, state.next_primary.date)
        generalDays == daysUntil(z, t, state.next_general.date)
    IN  [state_code   |-> state.state_code,
         primaryDays  |-> primaryDays,
         generalDays  |-> generalDays,
         nextElection |-> IF primaryDays # NaN /\ generalDays # NaN
                               /\ primaryDays < generalDays
                          THEN "primary" ELSE "general",
         daysToNext   |-> IF primaryDays = NaN \/ generalDays = NaN THEN NaN
                          ELSE IF primaryDays < generalDays
                               THEN primaryDays ELSE generalDays,
         specialCount |-> specialCount]

\* the state codes a detail URL may carry
RouteCodes == {"AA", "aa", "Bb", "CC", "zz"}

\* a code used as it is written in the URL
ToUpperCase_AsWritten(code) == code

\* String.prototype.toUpperCase on the codes of the model
ToUpperCase(code) ==
    CASE code \in {"aa", "aA", "Aa"} -> "AA"
      [] code \in {"bb", "bB", "Bb"} -> "BB"
      [] code \in {"cc", "cC", "Cc"} -> "CC"
      [] code \in {"zz", "zZ", "Zz"} -> "ZZ"
      [] OTHER -> code

\* states.find(s => s.state_code === code): the first match, or undefined
Find(sts, code) ==
    IF \E i \in 1 .. Len(sts) : sts[i].state_code = code
    THEN sts[CHOOSE i \in 1 .. Len(sts) :
                /\ sts[i].state_code = code
                /\ \A j \in 1 .. (i - 1) : sts[j].state_code # code]
    ELSE NullDoc

\* the eavsData prop of a <StateDetail /> that is given none
NoEavsData == NullDoc

\* what <StateStats stateCode eavsData /> returns: nothing, the section with
\* the notice, or the section with the figures
StateStats(stateCode, eavsData) ==
    IF "states" \notin DOMAIN eavsData THEN "null"
    ELSE IF ~ HasKey(eavsData.states, ToUpperCase(stateCode))
         THEN "EAVS data not available for this jurisdiction."
         ELSE "statistics"

\* a list that leaves out the records without a date
DetailSpecials_DatedOnly(sd, stateCode) ==
    IF "special_elections" \in DOMAIN sd
    THEN SelectSeq(sd.special_elections,
                   LAMBDA e : /\ e.state_code = ToUpperCase(stateCode)
                              /\ e.next_date # Null)
    ELSE <<>>

\* specialData?.special_elections?.filter(...) || []
DetailSpecials(sd, stateCode) ==
    IF "special_elections" \in DOMAIN sd
    THEN SelectSeq(sd.special_elections,
                   LAMBDA e : e.state_code = ToUpperCase(stateCode))
    ELSE <<>>

\* what <StateDetail states specialData eavsData /> shows for the code of
\* the URL
StateDetail(z, t, sts, sd, eavsData, stateCode) ==
    LET state == Find(sts, ToUpperCase(stateCode))
    IN  IF state = NullDoc
        THEN [view |-> "State Not Found", stateCode |-> stateCode,
              link |-> IndexPath]
        ELSE [view |-> "detail", stateCode |-> stateCode,
              state |-> state,
              primaryDays |-> daysUntil(z, t, state.next_primary.date),
              generalDays |-> daysUntil(z, t, state.next_general.date),
              stats |-> StateStats(stateCode, eavsData),
              stateSpecials |-> DetailSpecials(sd, stateCode)]

-----------------------------------------------------------------------------
(* USMap.jsx: the geographies and their handlers                           *)

\* geo.id of the units of the atlas: three states and a territory
GeoIds == {"01", "02", "04", "72"}

\* FIPS_TO_STATE[fips], with the codes of the model for the first states
FIPS_TO_STATE(fips) ==
    CASE fips = "01" -> "AA"
      [] fips = "02" -> "BB"
      [] fips = "04" -> "CC"
      [] OTHER -> Undefined

\* formatDate(dateStr): the local date of the local parse
formatDate(z, dateStr) ==
    LET d == LocalDate(z, ParseLocal(z, dateStr))
    IN  [month |-> d[2], day |-> d[3], year |-> d[1]]

\* the fill of a unit that has no state
GrayFill == "#d1d5db"

\* what reading a property of null throws
TypeError == "TypeError"

\* fillColor of the geography fips; next.days of a null election throws
FillColor(z, t, sts, sd, fips) ==
    LET stateCode == FIPS_TO_STATE(fips)
        next      == getNextElection(z, t, sts, sd, stateCode)
    IN  IF HasState(sts, stateCode)
        THEN IF next = NullElection THEN TypeError
             ELSE getColorByDays(next.days)
        ELSE GrayFill

\* the object handleMouseEnter passes to setTooltipContent; specialInfo is
\* the office and the district the template string is built from
TooltipOf(z, t, sts, sd, stateCode) ==
    LET state    == StateData(sts, stateCode)
        next     == getNextElection(z, t, sts, sd, stateCode)
        specials == getStateSpecials(sd, stateCode)
    IN  [name |-> state.state_name,
         code |-> state.state_code,
         nextType |-> next.type,
         nextDate |-> formatDate(z, next.date),
         nextDays |-> next.days,
         specialInfo |-> IF next.type = "Special"
                         THEN <<next.office, next.district>>
                         ELSE Null,
         specialCount |-> Len(specials)]

-----------------------------------------------------------------------------
(* The app from its mount on: the two fetches settle, the effect's then or *)
(* catch runs, and the views of the routes are rendered and used.          *)

\* the URLs the page may be opened at or moved to
Paths == {IndexPath, UpcomingPath} \cup {DetailPath(c) : c \in RouteCodes}

\* where the pointer may be
PointerPositions == {[x |-> 0, y |-> 0], [x |-> 5, y |-> 7]}

\* a step of the load leaves the clock, the views and the results alone
LoadStep == UNCHANGED <<tz, now, ret, prev, ui>>

\* fetch('/election_dates.json').then(res => res.json()) is fulfilled
RegularResolves(doc) ==
    /\ fetch.regular.status = "pending"
    /\ fetch' = [fetch EXCEPT !.regular = Fulfilled(doc)]
    /\ UNCHANGED <<loading, data, specialData, states>>
    /\ LoadStep

\* the same fetch fails, or its body does not parse
RegularRejects ==
    /\ fetch.regular.status = "pending"
    /\ fetch' = [fetch EXCEPT !.regular = Rejected]
    /\ UNCHANGED <<loading, data, specialData, states>>
    /\ LoadStep

\* fetch('/special_elections.json').then(res => res.json()) is fulfilled
SpecialResolves(doc) ==
    /\ fetch.special.status = "pending"
    /\ fetch' = [fetch EXCEPT !.special = Fulfilled(doc)]
    /\ UNCHANGED <<loading, data, specialData, states>>
    /\ LoadStep

\* the same fetch fails, or its body does not parse
SpecialRejects ==
    /\ fetch.special.status = "pending"
    /\ fetch' = [fetch EXCEPT !.special = Rejected]
    /\ UNCHANGED <<loading, data, specialData, states>>
    /\ LoadStep

\* a then callback that keeps the first document only
LoadThen_DataOnly ==
    /\ ~ fetch.handled
    /\ LoadPromise.status = "fulfilled"
    /\ data' = LoadPromise.value[1]
    /\ states' = LoadPromise.value[1].states
    /\ loading' = FALSE
    /\ fetch' = [fetch EXCEPT !.handled = TRUE]
    /\ UNCHANGED specialData
    /\ LoadStep

\* .then(([regular, special]) => { setData; setSpecialData; setLoading })
LoadThen ==
    /\ ~ fetch.handled
    /\ LoadPromise.status = "fulfilled"
    /\ data' = LoadPromise.value[1]
    /\ states' = LoadPromise.value[1].states
    /\ specialData' = LoadPromise.value[2]
    /\ loading' = FALSE
    /\ fetch' = [fetch EXCEPT !.handled = TRUE]
    /\ LoadStep

\* a catch that only logs the error
LoadCatch_Silent ==
    /\ ~ fetch.handled
    /\ LoadPromise.status = "rejected"
    /\ fetch' = [fetch EXCEPT !.handled = TRUE]
    /\ UNCHANGED <<loading, data, specialData, states>>
    /\ LoadStep

\* a catch that keeps the optional document when it has already arrived
LoadCatch_KeepsSpecial ==
    /\ ~ fetch.handled
    /\ LoadPromise.status = "rejected"
    /\ loading' = FALSE
    /\ specialData' = IF fetch.special.status = "fulfilled"
                      THEN fetch.special.value ELSE specialData
    /\ fetch' = [fetch EXCEPT !.handled = TRUE]
    /\ UNCHANGED <<data, states>>
    /\ LoadStep

\* a catch that issues the two fetches again
LoadCatch_Retry ==
    /\ ~ fetch.handled
    /\ LoadPromise.status = "rejected"
    /\ fetch' = [regular |-> Pending, special |-> Pending, handled |-> FALSE]
    /\ UNCHANGED <<loading, data, specialData, states>>
    /\ LoadStep

\* .catch(err => { console.error; setLoading(false) })
LoadCatch ==
    /\ ~ fetch.handled
    /\ LoadPromise.status = "rejected"
    /\ loading' = FALSE
    /\ fetch' = [fetch EXCEPT !.handled = TRUE]
    /\ UNCHANGED <<data, specialData, states>>
    /\ LoadStep

\* a render or a handler leaves the clock and the documents alone and
\* records what it produced
Produces(r) ==
    /\ ret' = r
    /\ prev' = NoCall
    /\ UNCHANGED <<tz, now, states, specialData, loading, data, fetch>>

\* a <Link> of the header, of the detail view or of the not-found view
ClickLink(path) ==
    /\ AppView = "data"
    /\ path \in {IndexPath, UpcomingPath}
    /\ path # ui.path
    /\ ui' = [InitialUi EXCEPT !.path = path]
    /\ Produces([op |-> "Link", to |-> path])

\* the <Link> around the card of states[i]
ClickCard(i) ==
    /\ AppView = "data"
    /\ ui.path = IndexPath
    /\ ui.viewMode = "grid"
    /\ i \in 1 .. Len(states)
    /\ ui' = [InitialUi EXCEPT !.path = DetailPath(states[i].state_code)]
    /\ Produces([op |-> "Link", to |-> DetailPath(states[i].state_code)])

\* the two buttons of the view toggle
SetViewMode(mode) ==
    /\ AppView = "data"
    /\ ui.path = IndexPath
    /\ ui' = IF mode = ui.viewMode THEN ui
             ELSE [InitialUi EXCEPT !.viewMode = mode]
    /\ Produces([op |-> "setViewMode", viewMode |-> mode])

\* the map is on the page
MapShown == AppView = "data" /\ ui.path = IndexPath /\ ui.viewMode = "map"

\* next.type of a null election throws before setTooltipContent is called
handleMouseEnter(fips) ==
    /\ MapShown
    /\ LET stateCode == FIPS_TO_STATE(fips)
           next == getNextElection(tz, now, states, specialData, stateCode)
           thrown == HasState(states, stateCode) /\ next = NullElection
       IN  /\ ui' = IF HasState(states, stateCode) /\ ~ thrown
                    THEN [ui EXCEPT !.tooltipContent =
                            TooltipOf(tz, now, states, specialData, stateCode)]
                    ELSE ui
           /\ Produces([op |-> "handleMouseEnter", fips |-> fips, was |-> ui,
                        error |-> IF thrown THEN TypeError ELSE "none"])

handleMouseMove(pos) ==
    /\ MapShown
    /\ ui' = [ui EXCEPT !.tooltipPos = pos]
    /\ Produces([op |-> "handleMouseMove", was |-> ui])

handleMouseLeave ==
    /\ MapShown
    /\ ui' = [ui EXCEPT !.tooltipContent = NoTooltip]
    /\ Produces([op |-> "handleMouseLeave", was |-> ui])

\* a click that navigates without looking the state up
handleClick_Unguarded(fips) ==
    /\ MapShown
    /\ ui' = [InitialUi EXCEPT !.path = DetailPath(FIPS_TO_STATE(fips))]
    /\ Produces([op |-> "handleClick", fips |-> fips, was |-> ui])

handleClick(fips) ==
    /\ MapShown
    /\ LET stateCode == FIPS_TO_STATE(fips)
       IN  ui' = IF stateCode # Undefined /\ HasState(states, stateCode)
                 THEN [InitialUi EXCEPT !.path = DetailPath(stateCode)]
                 ELSE ui
    /\ Produces([op |-> "handleClick", fips |-> fips, was |-> ui])

\* the render of one geography of the map
RenderGeography(fips) ==
    /\ MapShown
    /\ UNCHANGED ui
    /\ Produces([op |-> "Geography", fips |-> fips,
                 stateCode |-> FIPS_TO_STATE(fips),
                 next |-> getNextElection(tz, now, states, specialData,
                                          FIPS_TO_STATE(fips)),
                 fillColor |-> FillColor(tz, now, states, specialData, fips)])

\* the render of the card of states[i] in the grid
RenderCard(i) ==
    /\ AppView = "data"
    /\ ui.path = IndexPath
    /\ ui.viewMode = "grid"
    /\ i \in 1 .. Len(states)
    /\ UNCHANGED ui
    /\ Produces([op |-> "StateCard",
                 card |-> StateCard(tz, now, states[i],
                             getSpecialCount(specialData,
                                             states[i].state_code))])

\* the render of the route /state/:stateCode; App passes no eavsData
RenderDetail ==
    /\ AppView = "data"
    /\ ui.path.route = "detail"
    /\ UNCHANGED ui
    /\ Produces([op |-> "StateDetail",
                 shown |-> StateDetail(tz, now, states, specialData,
                                       NoEavsData, ui.path.stateCode)])

\* a render of the route /upcoming that sorts the states it was given
ShowTimeline_SortsStates ==
    /\ AppView = "data"
    /\ ui.path = UpcomingPath
    /\ states' = ArraySort([i \in 1 .. Len(states) |->
                              ParseUtc(states[i].next_general.date)], states)
    /\ data' = [data EXCEPT !.states = states']
    /\ ret' = [op |-> "UpcomingTimeline",
               emitted |-> BuildList(tz, now, states', specialData),
               elections |-> SortByDate(BuildList(tz, now, states',
                                                  specialData)),
               upcomingElections |-> <<>>, grouped |-> <<>>]
    /\ prev' = NoCall
    /\ UNCHANGED <<tz, now, specialData, loading, fetch, ui>>

\* the render of the route /upcoming
ShowTimeline ==
    /\ AppView = "data"
    /\ ui.path = UpcomingPath
    /\ RenderTimeline

InitApp ==
    /\ tz \in TimeZones
    /\ now = ParseLocal(tz, PageOpened)
    /\ states = <<>>
    /\ data = NullDoc
    /\ specialData = NullDoc
    /\ loading = TRUE
    /\ fetch = [regular |-> Pending, special |-> Pending, handled |-> FALSE]
    /\ ui \in {[InitialUi EXCEPT !.path = p] : p \in Paths}
    /\ ret = NoCall
    /\ prev = NoCall

NextApp ==
    \/ \E doc \in ElectionDocs : RegularResolves(doc)
    \/ RegularRejects
    \/ \E doc \in SpecialDocs : SpecialResolves(doc)
    \/ SpecialRejects
    \/ LoadThen
    \/ LoadCatch
    \/ NextDay
    \/ \E path \in Paths : ClickLink(path)
    \/ \E i \in 1 .. MaxStates : ClickCard(i)
    \/ \E mode \in {"map", "grid"} : SetViewMode(mode)
    \/ \E fips \in GeoIds : handleMouseEnter(fips)
    \/ \E pos \in PointerPositions : handleMouseMove(pos)
    \/ handleMouseLeave
    \/ \E fips \in GeoIds : handleClick(fips)
    \/ \E fips \in GeoIds : RenderGeography(fips)
    \/ \E i \in 1 .. MaxStates : RenderCard(i)
    \/ RenderDetail
    \/ ShowTimeline

SpecApp == InitApp /\ [][NextApp]_vars

\* a settled promise's reaction is a job of the microtask queue, which the
\* event loop always runs
SpecAppFair == SpecApp /\ WF_vars(LoadThen) /\ WF_vars(LoadCatch)

-----------------------------------------------------------------------------
(* The card of the grid and the rule of the map                            *)

\* the word the card uses for a type of election
CardWord(type) ==
    CASE type = "Primary" -> "primary"
      [] type = "General" -> "general"
      [] type = "Special" -> "special"
      [] OTHER -> "none"

\* C11: the grid card of a state names the election getNextElection
\* returns for that state, with the same day count, at every date.
C11_CardReportsNextElection ==
    ret.op = "StateCard" =>
        LET next == getNextElection(tz, now, states, specialData,
                                    ret.card.state_code)
        IN  /\ ret.card.nextElection = CardWord(next.type)
            /\ ret.card.daysToNext = next.days

-----------------------------------------------------------------------------
(* The load                                                                *)

\* the optional fetch has failed and the mandatory one has delivered
OptionalFailed ==
    fetch.special.status = "rejected" /\ fetch.regular.status = "fulfilled"

\* what is computed from the list of special elections is what the same
\* render computes from an empty list
NoSpecialInViews ==
    /\ ret.op = "UpcomingTimeline" =>
          /\ \A j \in 1 .. Len(ret.emitted) : ret.emitted[j].type # "Special"
          /\ ret.emitted = BuildList(tz, now, states, NoData)
    /\ ret.op = "Geography" =>
          /\ ret.next.type # "Special"
          /\ ret.next = getNextElection(tz, now, states, NoData, ret.stateCode)
    /\ (ret.op = "StateDetail" /\ ret.shown.view = "detail") =>
          ret.shown.stateSpecials = <<>>
    /\ ui.tooltipContent # NoTooltip => ui.tooltipContent.specialCount = 0

\* the count of special elections on a card of the grid is 0
NoSpecialCounted ==
    ret.op = "StateCard" => ret.card.specialCount = 0

AsWithoutSpecials == NoSpecialInViews /\ NoSpecialCounted

\* C12: when the optional fetch fails and the mandatory one loads, the
\* failure is replaced by the empty structure, the app reaches the data view
\* and never the error view, and every view shows what it shows with no
\* special election: no Special event, count 0, empty detail list.
C12_OptionalFailureIsEmptyStructure ==
    /\ [](OptionalFailed =>
            /\ Caught(fetch.special) = Fulfilled(EmptyStructure)
            /\ AppView # "error"
            /\ fetch.handled =>
                  /\ AppView = "data"
                  /\ specialData = EmptyStructure
                  /\ data = fetch.regular.value
            /\ AsWithoutSpecials)
    /\ (OptionalFailed ~> AppView = "data")

C12_Witness ==
    /\ OptionalFailed
    /\ AppView = "data"
    /\ ret.op = "UpcomingTimeline"
    /\ Len(ret.emitted) = 4

\* the error state of the app
ErrorState ==
    /\ loading = FALSE
    /\ data = NullDoc
    /\ AppView = "error"
    /\ ErrorMessage = "Failed to load election data"

\* C13: when the mandatory fetch fails the app ends in the error state,
\* whatever the optional fetch does; the state is terminal: the fetch is
\* never issued again, the error state is never left, and no view of the
\* data is rendered.
C13_MandatoryFailureIsTerminal ==
    /\ [](fetch.regular.status = "rejected" =>
            /\ fetch.handled => ErrorState
            /\ AppView # "data"
            /\ ret = NoCall)
    /\ (fetch.regular.status = "rejected" ~> ErrorState)
    /\ [][ErrorState => ErrorState']_vars
    /\ [][fetch.regular.status = "rejected" =>
            /\ fetch.regular' = fetch.regular
            /\ fetch.special.status # "pending" =>
                  fetch.special' = fetch.special]_vars

C13_Witness ==
    /\ ErrorState
    /\ fetch.regular.status = "rejected"
    /\ fetch.special.status = "fulfilled"
    /\ "special_elections" \in DOMAIN fetch.special.value
    /\ Len(fetch.special.value.special_elections) = 3
    /\ now > ParseLocal(tz, PageOpened)

\* C14 as stated: while either fetch is pending the app shows the loading
\* state, and the data view is shown only when both fetches have resolved.
C14_LoadingWhileEitherPending ==
    /\ (fetch.regular.status = "pending" \/ fetch.special.status = "pending")
          => AppView = "loading"
    /\ AppView = "data" =>
          /\ fetch.regular.status = "fulfilled"
          /\ Caught(fetch.special).status = "fulfilled"

\* C14, amended: while either fetch is pending and the mandatory one has not
\* failed the app shows the loading state; the data view is shown only when
\* both fetches have resolved, the optional one after substitution, and it
\* shows the documents they delivered.
C14_LoadingUntilBothResolveOrMandatoryFails ==
    /\ ( /\ fetch.regular.status = "pending" \/ fetch.special.status = "pending"
         /\ fetch.regular.status # "rejected" )
          => AppView = "loading"
    /\ AppView = "data" =>
          /\ fetch.regular.status = "fulfilled"
          /\ Caught(fetch.special).status = "fulfilled"
          /\ data = fetch.regular.value
          /\ specialData = Caught(fetch.special).value

C14_Witness ==
    /\ fetch.regular.status = "fulfilled"
    /\ fetch.special.status = "pending"
    /\ AppView = "loading"
    /\ now > ParseLocal(tz, PageOpened)

-----------------------------------------------------------------------------
(* The detail view                                                         *)

\* the upper-case form of each code a URL may carry
UpperCased(code) ==
    CHOOSE u \in {"AA", "BB", "CC", "ZZ"} :
        <<code, u>> \in { <<"AA", "AA">>, <<"aa", "AA">>, <<"BB", "BB">>,
                          <<"Bb", "BB">>, <<"CC", "CC">>, <<"zz", "ZZ">> }

\* the raw list of the special-elections document
RawSpecials ==
    IF "special_elections" \in DOMAIN specialData
    THEN specialData.special_elections
    ELSE <<>>

\* C15: the detail view upper-cases the code of the route before the
\* lookup: it shows the record whose state_code is the upper-cased code,
\* the not-found view with a link to the index when there is none, and the
\* specials of the same upper-cased code.
C15_DetailLookupIgnoresCase ==
    ret.op = "StateDetail" =>
        LET code == UpperCased(ret.shown.stateCode)
        IN  IF \E i \in 1 .. Len(states) : states[i].state_code = code
            THEN /\ ret.shown.view = "detail"
                 /\ ret.shown.state.state_code = code
                 /\ ret.shown.state \in Range(states)
                 /\ \A j \in 1 .. Len(ret.shown.stateSpecials) :
                       ret.shown.stateSpecials[j].state_code = code
                 /\ Len(ret.shown.stateSpecials) =
                       Len(SelectSeq(RawSpecials,
                                     LAMBDA e : e.state_code = code))
            ELSE /\ ret.shown.view = "State Not Found"
                 /\ ret.shown.link = IndexPath

C15_Witness ==
    /\ ret.op = "StateDetail"
    /\ ret.shown.stateCode = "aa"
    /\ ret.shown.view = "detail"
    /\ ret.shown.state.state_code = "AA"
    /\ Len(ret.shown.stateSpecials) = 2

\* C16: a special election without next_date gives no event to the
\* timeline, yet the detail view of its state lists it: the list is the
\* records of the raw list with the view's state code, in input order,
\* dated or not.
C16_UndatedSpecialListedNotScheduled ==
    /\ ret.op = "UpcomingTimeline" =>
          /\ \A j \in 1 .. Len(ret.emitted) : ret.emitted[j].date # Null
          /\ Len(SelectSeq(ret.emitted, LAMBDA e : e.type = "Special")) =
                Len(SelectSeq(RawSpecials, LAMBDA e : e.next_date # Null))
    /\ (ret.op = "StateDetail" /\ ret.shown.view = "detail") =>
          ret.shown.stateSpecials =
              SelectSeq(RawSpecials,
                        LAMBDA e : e.state_code = ret.shown.state.state_code)

C16_Witness ==
    /\ ret.op = "StateDetail"
    /\ ret.shown.view = "detail"
    /\ Len(ret.shown.stateSpecials) = 2
    /\ ret.shown.stateSpecials[1].next_date = Null
    /\ ret.shown.stateSpecials[2].next_date # Null

-----------------------------------------------------------------------------
(* The map                                                                 *)

\* the unit has no state in the lookup: its id is not in the table, or the
\* state of its code is not loaded
AbsentUnit(fips) ==
    \/ fips \notin {"01", "02", "04"}
    \/ \A i \in 1 .. Len(states) : states[i].state_code # FIPS_TO_STATE(fips)

\* C17: for a unit of the map whose state is absent from the lookup,
\* getNextElection returns null, the unit is filled with the fixed gray, and
\* entering or clicking it changes neither the tooltip nor the route.
C17_AbsentUnitIsInert ==
    /\ (ret.op = "Geography" /\ AbsentUnit(ret.fips)) =>
          /\ ret.next = NullElection
          /\ ret.fillColor = "#d1d5db"
    /\ (ret.op \in {"handleMouseEnter", "handleClick"}
            /\ AbsentUnit(ret.fips)) =>
          ui = ret.was

C17_Witness ==
    /\ ret.op = "handleClick"
    /\ ret.fips = "04"
    /\ Len(states) = 2
    /\ ui.tooltipContent # NoTooltip
    /\ ui.path = IndexPath

-----------------------------------------------------------------------------
(* The statistics section                                                  *)

\* C18: the detail view of an existing state whose EAVS statistics are
\* missing shows the statistics section with the 'not available' notice;
\* the section is never left out.
C18_MissingStatsShowNotice ==
    (ret.op = "StateDetail" /\ ret.shown.view = "detail") =>
        /\ ret.shown.stats # "null"
        /\ ret.shown.stats = "EAVS data not available for this jurisdiction."

-----------------------------------------------------------------------------
(* The documents after the load                                            *)

\* C19: after the load the documents are never changed or replaced: the
\* views show the documents the fetches delivered, no render or handler
\* changes the states list or the special-elections document, and once the
\* load is handled no step assigns data, specialData or loading.
C19_DocumentsImmutableAfterLoad ==
    /\ [](AppView = "data" =>
            /\ states = data.states
            /\ data = fetch.regular.value
            /\ specialData = Caught(fetch.special).value)
    /\ [][AppView = "data" => UNCHANGED <<data, specialData, states>>]_vars
    /\ [][fetch.handled =>
            UNCHANGED <<data, specialData, states, loading>>]_vars

C19_Witness ==
    /\ AppView = "data"
    /\ ret.op = "UpcomingTimeline"
    /\ ret.elections # ret.emitted
    /\ Len(RawSpecials) = 3
    /\ now > ParseLocal(tz, PageOpened)

\* C20: with a special-elections document that is null or lacks the field
\* a view reads, no error is raised and the view shows what it shows with
\* an empty list: without special_elections the timeline has regular events
\* only, the next election is the Primary or the General, the tooltip
\* counts 0 and the detail list is empty; without by_state every card
\* counts 0.
C20_MissingDocumentIsEmptyList ==
    AppView = "data" =>
        /\ "special_elections" \notin DOMAIN specialData => NoSpecialInViews
        /\ "by_state" \notin DOMAIN specialData => NoSpecialCounted

C20_Witness ==
    /\ AppView = "data"
    /\ specialData = NullDoc
    /\ ret.op = "Geography"
    /\ ret.fips = "01"
    /\ ret.next.type = "General"

-----------------------------------------------------------------------------
(* The scenario of 2026-01-01: a state with its primary on 2026-03-03 and  *)
(* its general on 2026-11-03, looked at through the hours of that day.     *)

ScenarioToday == <<2026, 1, 1>>

ScenarioState ==
    [state_code |-> "AA", state_name |-> "Alphaland",
     next_primary |-> [date |-> <<2026, 3, 3>>],
     next_general |-> [date |-> <<2026, 11, 3>>]]

\* an hour of the day passes
HourPasses ==
    /\ LocalDate(tz, now + 1) = ScenarioToday
    /\ now' = now + 1
    /\ ret' = NoCall
    /\ prev' = NoCall
    /\ UNCHANGED <<tz, states, specialData, appVars>>

\* daysUntil of one of the two dates of the state
CountDays(which) ==
    /\ states # <<>>
    /\ CallDaysUntil(IF which = "primary" THEN states[1].next_primary.date
                     ELSE states[1].next_general.date)

\* getColorByDays of the count just computed
ClassifyCount ==
    /\ ret.op = "daysUntil"
    /\ CallGetColorByDays(ret.days)

InitScenario ==
    /\ tz \in TimeZones
    /\ now = ParseLocal(tz, ScenarioToday)
    /\ states = <<ScenarioState>>
    /\ specialData = NoData
    /\ ret = NoCall
    /\ prev = NoCall
    /\ Loaded(states, specialData)

NextScenario ==
    \/ HourPasses
    \/ \E which \in {"primary", "general"} : CountDays(which)
    \/ ClassifyCount

SpecScenario == InitScenario /\ [][NextScenario]_vars

\* C21: on 2026-01-01 the primary of 2026-03-03 is 61 days away and is
\* classified 'approaching': 61 is above 60 and not above 90.
C21_ScenarioPrimaryApproaching ==
    /\ (ret.op = "daysUntil" /\ ret.dateStr = <<2026, 3, 3>>) =>
          ret.days = 61
    /\ (ret.op = "getColorByDays" /\ prev.op = "daysUntil"
            /\ prev.dateStr = <<2026, 3, 3>>) =>
          /\ ret.days = 61
          /\ ret.days > 60 /\ ret.days <= 90
          /\ BucketOfDays(ret.days) = "approaching"
          /\ ret.color = "#8B7355"

C21_Witness ==
    /\ ret.op = "getColorByDays"
    /\ prev.op = "daysUntil"
    /\ prev.dateStr = <<2026, 3, 3>>
    /\ tz = "America/New_York"
    /\ now = ParseLocal(tz, ScenarioToday) + 13
    /\ ret.color = "#8B7355"

-----------------------------------------------------------------------------
(* Documents with a malformed date: the timeline and the next election of  *)
(* a state whose record, or whose special election, carries "2026-13-45".  *)

MalformedDate == <<2026, 13, 45>>

\* one state with a malformed primary, general or both, or with proper
\* dates
MalformedStateLists ==
    { << [state_code |-> "AA", state_name |-> "Alphaland",
          next_primary |-> [date |-> pg[1]],
          next_general |-> [date |-> pg[2]]] >> :
        pg \in { <<MalformedDate, <<2026, 11, 1>>>>,
                 <<<<2026, 11, 1>>, MalformedDate>>,
                 <<MalformedDate, MalformedDate>>,
                 <<<<2026, 11, 1>>, <<2027, 11, 2>>>> } }

\* no special election, a dated one, or one with a malformed next_date
MalformedSpecialLists ==
    { <<>>,
      << SpecialOf("AA", <<2026, 12, 1>>) >>,
      << [SpecialOf("AA", <<2026, 12, 1>>)
             EXCEPT !.next_date = MalformedDate] >> }

InitMalformed ==
    /\ tz \in TimeZones
    /\ now = ParseLocal(tz, PageOpened)
    /\ states \in MalformedStateLists
    /\ specialData \in {FullDoc(sp) : sp \in MalformedSpecialLists}
    /\ ret = NoCall
    /\ prev = NoCall
    /\ Loaded(states, specialData)

NextMalformed ==
    \/ NextDay
    \/ RenderTimeline
    \/ \E c \in {"AA", "ZZ"} : CallGetNextElection(c)

SpecMalformed == InitMalformed /\ [][NextMalformed]_vars

\* the events of a list whose day count is a number that is not negative
ValidUpcoming(list) ==
    SelectSeq(list, LAMBDA e : ~ InvalidDate(e.date) /\ e.days >= 0)

\* every event with a malformed date is emitted with NaN days
EmittedWithNaN ==
    /\ Len(ret.emitted) =
          2 * Len(states)
          + Len(SelectSeq(RawSpecials, LAMBDA e : e.next_date # Null))
    /\ \A j \in 1 .. Len(ret.emitted) :
          InvalidDate(ret.emitted[j].date) <=> ret.emitted[j].days = NaN

\* the next election is the NaN one when the primary is malformed and no
\* candidate has a day count that is not negative
NextIsNaNByFallback ==
    (ret.op = "getNextElection" /\ ret.elections # <<>>) =>
        /\ ret.next # NullElection
        /\ (InvalidDate(ret.elections[1].date)
                /\ ValidUpcoming(ret.elections) = <<>>)
              => (ret.next.days = NaN /\ ret.next.type = "Primary")

\* C22 as stated: a malformed date raises no error, its event is emitted
\* with NaN days, and the NaN event is in the timeline's upcoming list and
\* is the next election of its state.
C22_NaNPropagatesToResults ==
    /\ ret.op = "UpcomingTimeline" =>
          /\ EmittedWithNaN
          /\ \A j \in 1 .. Len(ret.emitted) :
                ret.emitted[j].days = NaN =>
                   \E k \in 1 .. Len(ret.upcomingElections) :
                      ret.upcomingElections[k] = ret.emitted[j]
    /\ NextIsNaNByFallback

\* C22, amended: a malformed date raises no error and its event is emitted
\* with NaN days into the list of all elections, but the filter days >= 0
\* drops it: the upcoming list is the events with proper dates that are not
\* past; the next election of a state has NaN days only by the fallback,
\* when its primary is malformed and no candidate is upcoming, and otherwise
\* is a candidate with a proper day count.
C22_NaNEmittedButFiltered ==
    /\ ret.op = "UpcomingTimeline" =>
          /\ EmittedWithNaN
          /\ \A e \in Range(ret.emitted) :
                CountIn(ret.elections, e) = CountIn(ret.emitted, e)
          /\ Len(ret.elections) = Len(ret.emitted)
          /\ ret.upcomingElections = ValidUpcoming(ret.elections)
          /\ \A k \in 1 .. Len(ret.upcomingElections) :
                ret.upcomingElections[k].days # NaN
    /\ NextIsNaNByFallback
    /\ (ret.op = "getNextElection" /\ ret.elections # <<>>) =>
          (ret.next.days = NaN <=>
              /\ InvalidDate(ret.elections[1].date)
              /\ ValidUpcoming(ret.elections) = <<>>)

C22_Witness ==
    /\ ret.op = "UpcomingTimeline"
    /\ \E j \in 1 .. Len(ret.emitted) :
          /\ ret.emitted[j].days = NaN
          /\ ret.emitted[j].type = "Special"
    /\ Len(ret.emitted) = 3
    /\ Len(ret.upcomingElections) = 2
    /\ ret.elections # ret.emitted

-----------------------------------------------------------------------------
(* The load as a state machine                                             *)

\* each of the two fetches has resolved or rejected
BothSettled ==
    fetch.regular.status # "pending" /\ fetch.special.status # "pending"

\* C23: the app starts in the loading state; once both fetches have settled
\* it leaves the loading state, and is then in the data view (the mandatory
\* document arrived) or in the error view (it did not), never both; loading
\* never becomes true again and neither view changes into the other.
C23_LoadIsOneShot ==
    /\ AppView = "loading"
    /\ (BothSettled ~> ~ loading)
    /\ [](~ loading =>
            \/ AppView = "data" /\ fetch.regular.status = "fulfilled"
            \/ AppView = "error" /\ fetch.regular.status = "rejected")
    /\ [][~ loading => ~ loading']_vars
    /\ [][AppView = "data" => AppView' = "data"]_vars
    /\ [][AppView = "error" => AppView' = "error"]_vars

C23_Witness ==
    /\ AppView = "data"
    /\ BothSettled
    /\ fetch.special.status = "rejected"
    /\ ret.op = "StateDetail"
    /\ now > ParseLocal(tz, PageOpened)

\* the state the load ends in, from the outcomes of the two fetches alone
FinalState(regular, special) ==
    IF regular.status = "fulfilled"
    THEN [loading |-> FALSE, data |-> regular.value,
          specialData |-> IF special.status = "fulfilled" THEN special.value
                          ELSE [special_elections |-> <<>>, by_state |-> <<>>],
          view |-> "data"]
    ELSE [loading |-> FALSE, data |-> NullDoc, specialData |-> NullDoc,
          view |-> "error"]

\* C24: when both fetches have settled and the load is handled, loading,
\* data, specialData and the view shown are determined by the two outcomes,
\* in whichever order the fetches settled.
C24_FinalStateIgnoresOrder ==
    (BothSettled /\ fetch.handled) =>
        [loading |-> loading, data |-> data, specialData |-> specialData,
         view |-> AppView] = FinalState(fetch.regular, fetch.special)

C24_Witness ==
    /\ BothSettled
    /\ fetch.handled
    /\ fetch.regular.status = "rejected"
    /\ fetch.special.status = "fulfilled"
    /\ fetch.special.value = FullDoc(DatedList)
    /\ AppView = "error"

-----------------------------------------------------------------------------
(* The timeline and the map over the days around the start of daylight     *)
(* saving time, 2026-03-08.                                                *)

\* the day the clock starts at
SpringOpened == <<2026, 3, 6>>

\* one state: its general the day before its primary, its primary the day
\* before its general, or both well after the change
SpringStateLists ==
    { << [state_code |-> "AA", state_name |-> "Alphaland",
          next_primary |-> [date |-> pg[1]],
          next_general |-> [date |-> pg[2]]] >> :
        pg \in { <<<<2026, 3, 9>>, <<2026, 3, 8>>>>,
                 <<<<2026, 3, 8>>, <<2026, 3, 9>>>>,
                 <<<<2026, 3, 10>>, <<2026, 11, 3>>>> } }

\* no special election, or one of the state on the day of the change
SpringSpecialLists ==
    { <<>>,
      << [SpecialOf("AA", <<2026, 12, 1>>)
             EXCEPT !.next_date = <<2026, 3, 8>>] >> }

InitSpring ==
    /\ tz \in TimeZones
    /\ now = ParseLocal(tz, SpringOpened)
    /\ states \in SpringStateLists
    /\ specialData \in {FullDoc(sp) : sp \in SpringSpecialLists}
    /\ ret = NoCall
    /\ prev = NoCall
    /\ Loaded(states, specialData)

NextSpring ==
    \/ Tick
    \/ RenderTimeline
    \/ \E c \in {"AA", "ZZ"} : CallGetNextElection(c)

SpecSpring == InitSpring /\ [][NextSpring]_vars

\* the first event of a state code in a list
FirstOfState(list, code) ==
    list[CHOOSE k \in 1 .. Len(list) :
            /\ list[k].state_code = code
            /\ \A j \in 1 .. (k - 1) : list[j].state_code # code]

\* C26: for every loaded state with a candidate that is not past, the first
\* event of its state code in the timeline's upcoming list has the type and
\* the date of the election getNextElection returns for it.
C26_TimelineAndMapAgree ==
    ret.op = "UpcomingTimeline" =>
        \A i \in 1 .. Len(states) :
            LET code  == states[i].state_code
                cands == Candidates(tz, now, states, specialData, code)
                next  == getNextElection(tz, now, states, specialData, code)
            IN  (\E j \in 1 .. Len(cands) : cands[j].days >= 0) =>
                   /\ \E k \in 1 .. Len(ret.upcomingElections) :
                         ret.upcomingElections[k].state_code = code
                   /\ FirstOfState(ret.upcomingElections, code).type
                         = next.type
                   /\ FirstOfState(ret.upcomingElections, code).date
                         = next.date

-----------------------------------------------------------------------------
(* The next election of a state with data                                  *)

\* the state of the unit is in the lookup
KnownUnit(fips) ==
    \E i \in 1 .. Len(states) : states[i].state_code = FIPS_TO_STATE(fips)

\* C27: for a state in the lookup getNextElection returns an election, not
\* null, with its days and its date, whatever the special elections and
\* also when every election of the state is past; the fill colour and the
\* tooltip of the state are computed without reading a null election.
C27_KnownStateHasNextElection ==
    /\ (ret.op = "Geography" /\ KnownUnit(ret.fips)) =>
          /\ ret.next # NullElection
          /\ ret.next.type \in {"Primary", "General", "Special"}
          /\ ret.next.days \in Int
          /\ ret.next.days # NaN
          /\ ret.next.date # Null
          /\ ret.fillColor # TypeError
          /\ ret.fillColor = ColorOfBucket(BucketOfDays(ret.next.days))
    /\ (ret.op = "handleMouseEnter" /\ KnownUnit(ret.fips)) =>
          /\ ret.error = "none"
          /\ ui.tooltipContent # NoTooltip
          /\ ui.tooltipContent.code = FIPS_TO_STATE(ret.fips)
          /\ ui.tooltipContent.nextType \in {"Primary", "General", "Special"}
          /\ ui.tooltipContent.nextDays \in Int

C27_Witness ==
    /\ ret.op = "Geography"
    /\ KnownUnit(ret.fips)
    /\ ret.next.type = "Primary"
    /\ ret.next.days < 0
    /\ ret.fillColor = "#C65D3D"
    /\ \A j \in 1 .. Len(states) :
          /\ daysUntil(tz, now, states[j].next_primary.date) < 0
          /\ daysUntil(tz, now, states[j].next_general.date) < 0

=============================================================================
